---------------------------- MODULE Spec2Model ----------------------------
(***************************************************************************)
(* A model of the ray tracer: the vec3 algebra (vec3.h), the sphere and    *)
(* the hit record (sphere.h / hittable.h), the aggregate                   *)
(* (hittable_list.h), the colour output (color.h) and the render loop of   *)
(* main (main.cpp).                                                        *)
(*                                                                         *)
(* A double is modelled exactly, as a triple <<n, d, e>>:                  *)
(*   d > 0, e = 0          the rational n/d in lowest terms                *)
(*   d = 0, e = 0          +infinity (n = 1), -infinity (n = -1), NaN (0)  *)
(*   d = 1, e = DenormExp  the subnormal n * 2^DenormExp, n # 0            *)
(*   d > 0, e = TinyExp    (n/d) * 2^TinyExp, n # 0, n/d in lowest terms:  *)
(*                         a normal double of the size of the square root  *)
(*                         of a subnormal                                  *)
(* -0 and +0 are one value. A rational whose denominator is a power of    *)
(* two is a double as it stands (IsDouble); any other rational stands for  *)
(* the double nearest to it, the result of one correctly rounded           *)
(* operation on doubles. The inputs of every specification are chosen so   *)
(* that each double operation the code performs on them is exact: square   *)
(* roots are taken of perfect squares only (SqrtExact) and the reciprocals *)
(* 1/t of the dividing functions are doubles (RecipExact). Where a result  *)
(* would be rounded twice the functions yield Rounded, no value.           *)
(* The one exception is the render run, whose values are rounded at every  *)
(* step: there a double is enclosed between two fixed-point bounds (see    *)
(* Precision).                                                             *)
(***************************************************************************)
EXTENDS Integers, Sequences, FiniteSets, TLC

VARIABLES
    objects,       \* hittable_list::objects, a sequence of spheres
    op,            \* the aggregate operation performed last
    idx,           \* sphere_hit: the member whose hit was called
    ray,           \* the ray of the last hit call
    ray_t,         \* the search interval of the last hit call
    rec_in,        \* the caller's hit_record as passed to the last hit call
    rec,           \* the caller's hit_record after the last hit call
    ret,           \* how the last hit call ended: "true", "false", "throw"
    pc,            \* main: position in the render run
    image_width,   \* main: image_width
    aspect_ratio,  \* main: aspect_ratio
    image_height,  \* main: image_height
    row,           \* main: loop variable row
    col,           \* main: loop variable col
    out,           \* main: the lines written to std::cout so far
    fn,            \* the pure function applied last (vec3 division, colour)
    arg,           \* its arguments
    res            \* its result

vars == <<objects, op, idx, ray, ray_t, rec_in, rec, ret,
          pc, image_width, aspect_ratio, image_height, row, col, out,
          fn, arg, res>>

sceneVars  == <<objects, op, idx, ray, ray_t, rec_in, rec, ret>>
renderVars == <<pc, image_width, aspect_ratio, image_height, row, col, out>>
pureVars   == <<fn, arg, res>>

---------------------------------------------------------------------------
(* Integer helpers.                                                        *)

Abs(n)  == IF n < 0 THEN -n ELSE n
Sign(n) == IF n < 0 THEN -1 ELSE IF n > 0 THEN 1 ELSE 0
SignP(n) == IF n < 0 THEN -1 ELSE 1

RECURSIVE GCD(_, _)
GCD(a, b) == IF b = 0 THEN a ELSE GCD(b, a % b)

\* The integer nearest to n/d (d > 0), ties to the even one: IEEE
\* round-to-nearest-even on the grid of whole units.
RoundEven(n, d) ==
    LET q == n \div d
        r == n % d
    IN  IF 2 * r < d THEN q
        ELSE IF 2 * r > d THEN q + 1
        ELSE IF q % 2 = 0 THEN q ELSE q + 1

\* The exact integer square root of a perfect square n >= 0.
ISqrt(n) == CHOOSE k \in 0..n : k * k = n
IsSquare(n) == n >= 0 /\ \E k \in 0..n : k * k = n

\* floor(n / d) and ceiling(n / d), d > 0; the least and the greatest of a
\* set of integers.
FloorDiv(n, d) == n \div d
CeilDiv(n, d)  == -((-n) \div d)
Least(S)    == CHOOSE m \in S : \A n \in S : m <= n
Greatest(S) == CHOOSE m \in S : \A n \in S : n <= m

\* Whether d is a power of two.
RECURSIVE IsPowerOfTwo(_)
IsPowerOfTwo(d) == d = 1 \/ (d > 1 /\ d % 2 = 0 /\ IsPowerOfTwo(d \div 2))

\* Whether (q + r/b) * 2^j >= c, for 0 <= r < b and c >= 1: the quotient is
\* doubled j times by long division.
RECURSIVE ShiftedGeq(_, _, _, _, _)
ShiftedGeq(q, r, b, j, c) ==
    IF q >= c THEN TRUE
    ELSE IF j = 0 THEN FALSE
    ELSE IF q >= c - q THEN TRUE
    ELSE IF r >= b - r THEN ShiftedGeq(q + q + 1, r - (b - r), b, j - 1, c)
    ELSE ShiftedGeq(q + q, r + r, b, j - 1, c)

\* The number of factors 2 of n # 0, and n without them.
RECURSIVE Twos(_)
Twos(n) == IF n % 2 = 0 THEN 1 + Twos(n \div 2) ELSE 0
RECURSIVE Odd(_)
Odd(n) == IF n % 2 = 0 THEN Odd(n \div 2) ELSE n

\* floor(sqrt(n)), 0 <= n, by bisection between lo and hi
RECURSIVE RootWithin(_, _, _)
RootWithin(n, lo, hi) ==
    IF lo = hi THEN lo
    ELSE LET mid == (lo + hi + 1) \div 2
         IN  IF mid * mid <= n THEN RootWithin(n, mid, hi)
             ELSE RootWithin(n, lo, mid - 1)
FloorRoot(n) == RootWithin(n, 0, 46340)

\* The least c with 2^c >= n, n >= 1
RECURSIVE CeilLog2(_)
CeilLog2(n) == IF n = 1 THEN 0 ELSE 1 + CeilLog2(n - n \div 2)

\* Naturals below 2^55 as <<high, low>>, the number high * Limb + low with
\* 0 <= low < Limb: comparison, doubling, halving (floor), difference
\* (a >= b), successor, parity, a * 2^k and floor(a / 2^k). The loops over
\* them are recursive functions, so that each step works on values.
Limb == 2^27
Wides == Nat \X Nat
Wide(n) == <<n \div Limb, n % Limb>>
WideLess(a, b) == a[1] < b[1] \/ (a[1] = b[1] /\ a[2] < b[2])
WideTwice(a) == <<2 * a[1] + (2 * a[2]) \div Limb, (2 * a[2]) % Limb>>
WideHalf(a) == <<a[1] \div 2, (a[1] % 2) * (Limb \div 2) + a[2] \div 2>>
WideMinus(a, b) ==
    IF a[2] >= b[2] THEN <<a[1] - b[1], a[2] - b[2]>>
    ELSE <<a[1] - b[1] - 1, a[2] + Limb - b[2]>>
WideSucc(a) == IF a[2] + 1 = Limb THEN <<a[1] + 1, 0>> ELSE <<a[1], a[2] + 1>>
WideOdd(a) == a[2] % 2 = 1
WideTimes[a \in Wides, k \in Nat] ==
    IF k = 0 \/ a = <<0, 0>> THEN a ELSE WideTimes[WideTwice(a), k - 1]
WideOver[a \in Wides, k \in Nat] ==
    IF k = 0 \/ a = <<0, 0>> THEN a ELSE WideOver[WideHalf(a), k - 1]

\* Restoring division, one bit of the quotient at a step: from <<q, rem, k>>
\* with rem < y < 2^54, the k steps left give <<q * 2^k + floor(rem * 2^k / y),
\* the remainder, 0>>.
LongStep(st, y) ==
    LET twice == WideTwice(st[2])
    IN  IF WideLess(twice, y) THEN <<WideTwice(st[1]), twice, st[3] - 1>>
        ELSE <<WideSucc(WideTwice(st[1])), WideMinus(twice, y), st[3] - 1>>
LongQuotient[st \in Wides \X Wides \X Nat, y \in Wides] ==
    IF st[3] = 0 THEN st ELSE LongQuotient[LongStep(st, y), y]

\* A 54-bit quotient q with its remainder, <<q, rem, 0>>, rounded to 53 bits
\* to the nearest, ties to even (a remainder other than 0 breaks the tie
\* upwards): the mantissa and the exponent, from the exponent e of the
\* quotient's 54th bit.
NearestEven[qr \in Wides \X Wides \X Nat, e \in Int] ==
    LET m  == WideHalf(qr[1])
        up == WideOdd(qr[1]) /\ (qr[2] # <<0, 0>> \/ WideOdd(m))
        r  == IF up THEN WideSucc(m) ELSE m
    IN  IF r[1] >= 2^26 THEN <<WideHalf(r), e + 2>> ELSE <<r, e + 1>>

---------------------------------------------------------------------------
(* Doubles.                                                                *)

\* std::numeric_limits<double>::denorm_min() is 2^DenormExp.
DenormExp == -1074

Rat(n, d) ==
    IF d = 0 THEN <<Sign(n), 0, 0>>
    ELSE LET g == GCD(Abs(n), Abs(d))
         IN  <<(SignP(d) * n) \div g, Abs(d) \div g, 0>>

Zero     == <<0, 1, 0>>
One      == <<1, 1, 0>>
NaN      == <<0, 0, 0>>
infinity == <<1, 0, 0>>
D(n)   == <<n, 1, 0>>
Sub(k)   == IF k = 0 THEN Zero ELSE <<k, 1, DenormExp>>
DenormMin == Sub(1)

\* std::sqrt of the subnormal k * 2^DenormExp is sqrt(k) * 2^TinyExp, a
\* normal double; Tiny(n, d) is the double (n/d) * 2^TinyExp.
TinyExp == DenormExp \div 2
Tiny(n, d) == IF n = 0 THEN Zero ELSE <<Rat(n, d)[1], Rat(n, d)[2], TinyExp>>

IsNaN(x)  == x[2] = 0 /\ x[1] = 0
IsInf(x)  == x[2] = 0 /\ x[1] # 0
IsSub(x)  == x[3] = DenormExp
IsTiny(x) == x[3] = TinyExp
IsZero(x) == x[2] # 0 /\ x[1] = 0
IsFinite(x) == x[2] # 0

\* Whether x is a double as it stands: an infinity, NaN, a subnormal, or a
\* rational whose denominator is a power of two.
IsDouble(x) == IsSub(x) \/ x[2] = 0 \/ IsPowerOfTwo(x[2])

DNeg(x)  == <<-x[1], x[2], x[3]>>
DFabs(x) == <<Abs(x[1]), x[2], x[3]>>

\* x * y. A product of two subnormals, or of a subnormal and a tiny value,
\* underflows to 0; a subnormal times a finite value, and the product of
\* two tiny values, is rounded to the subnormal grid.
DMul(x, y) ==
    IF IsSub(x) /\ IsSub(y) THEN Zero
    ELSE IF (IsSub(x) /\ IsTiny(y)) \/ (IsTiny(x) /\ IsSub(y)) THEN Zero
    ELSE IF IsTiny(x) /\ IsTiny(y)
         THEN Sub(RoundEven(x[1] * y[1], x[2] * y[2]))
    ELSE IF IsSub(x)
         THEN IF y[2] = 0 THEN <<Sign(x[1]) * y[1], 0, 0>>
              ELSE Sub(RoundEven(x[1] * y[1], y[2]))
    ELSE IF IsSub(y)
         THEN IF x[2] = 0 THEN <<Sign(y[1]) * x[1], 0, 0>>
              ELSE Sub(RoundEven(y[1] * x[1], x[2]))
    ELSE IF IsTiny(x)
         THEN IF y[2] = 0 THEN <<Sign(x[1]) * y[1], 0, 0>>
              ELSE Tiny(x[1] * y[1], x[2] * y[2])
    ELSE IF IsTiny(y)
         THEN IF x[2] = 0 THEN <<Sign(y[1]) * x[1], 0, 0>>
              ELSE Tiny(y[1] * x[1], y[2] * x[2])
    ELSE Rat(x[1] * y[1], x[2] * y[2])

\* x + y. A subnormal added to a nonzero normal value is absorbed, and so
\* is a tiny value added to a nonzero value of the first kind.
DAdd(x, y) ==
    IF IsSub(x) /\ IsSub(y) THEN Sub(x[1] + y[1])
    ELSE IF IsSub(x) THEN (IF IsZero(y) THEN x ELSE y)
    ELSE IF IsSub(y) THEN (IF IsZero(x) THEN y ELSE x)
    ELSE IF IsTiny(x) /\ IsTiny(y)
         THEN Tiny(x[1] * y[2] + y[1] * x[2], x[2] * y[2])
    ELSE IF IsTiny(x) THEN (IF IsZero(y) THEN x ELSE y)
    ELSE IF IsTiny(y) THEN (IF IsZero(x) THEN y ELSE x)
    ELSE IF IsNaN(x) \/ IsNaN(y) THEN NaN
    ELSE IF x[2] = 0 /\ y[2] = 0 THEN (IF x[1] = y[1] THEN x ELSE NaN)
    ELSE IF x[2] = 0 THEN x
    ELSE IF y[2] = 0 THEN y
    ELSE Rat(x[1] * y[2] + y[1] * x[2], x[2] * y[2])

DSub(x, y) == DAdd(x, DNeg(y))

\* Every finite double is below 2^MaxExp in magnitude.
MaxExp == 1024

\* A finite double above the range of the triples: (n/d) * 2^e with n and d
\* odd. It is what a division by a subnormal yields when it does not
\* overflow; no operation of the model takes it as an argument.
Large(n, d, e) == [n |-> n, d |-> d, e |-> e]

\* x / k * 2^-DenormExp for a nonzero normal x = n/d: an infinity when the
\* magnitude reaches 2^MaxExp, that is when |n| * 2^(-DenormExp - MaxExp)
\* >= d * |k|, and the finite quotient otherwise.
DivBySub(x, k) ==
    IF ShiftedGeq(Abs(x[1]) \div x[2], Abs(x[1]) % x[2], x[2],
                  (-DenormExp) - MaxExp, Abs(k))
    THEN <<Sign(x[1]) * Sign(k), 0, 0>>
    ELSE LET m == Rat(Odd(x[1]) * Sign(k), Odd(x[2]) * Odd(Abs(k)))
         IN  Large(m[1], m[2],
                   (-DenormExp) + Twos(x[1]) - Twos(x[2]) - Twos(k))

\* q * 2^-TinyExp for a nonzero rational q: a finite double above the range
\* of the triples.
Raised(q) == Large(Odd(q[1]), Odd(q[2]), Twos(q[1]) - Twos(q[2]) - TinyExp)

\* x / y.
DDiv(x, y) ==
    IF IsNaN(x) \/ IsNaN(y) THEN NaN
    ELSE IF IsTiny(y)
         THEN IF IsTiny(x) THEN Rat(x[1] * y[2], x[2] * y[1])
              ELSE IF IsSub(x) THEN Tiny(x[1] * y[2], y[1])
              ELSE IF IsZero(x) THEN Zero
              ELSE IF IsInf(x) THEN <<x[1] * Sign(y[1]), 0, 0>>
              ELSE Raised(Rat(x[1] * y[2], x[2] * y[1]))
    ELSE IF IsTiny(x)
         THEN IF IsSub(y) THEN Raised(Rat(x[1], x[2] * y[1]))
              ELSE IF IsInf(y) THEN Zero
              ELSE IF IsZero(y) THEN <<Sign(x[1]), 0, 0>>
              ELSE Tiny(x[1] * y[2], x[2] * y[1])
    ELSE IF IsSub(y)
         THEN IF IsSub(x) THEN Rat(x[1], y[1])
              ELSE IF IsZero(x) THEN Zero
              ELSE IF IsInf(x) THEN <<x[1] * Sign(y[1]), 0, 0>>
              ELSE DivBySub(x, y[1])
    ELSE IF IsSub(x)
         THEN IF IsInf(y) THEN Zero
              ELSE IF IsZero(y) THEN <<Sign(x[1]), 0, 0>>
              ELSE Sub(SignP(y[1]) * RoundEven(Abs(x[1]) * y[2], Abs(y[1]))
                       * Sign(x[1]))
    ELSE IF IsInf(y) THEN (IF IsInf(x) THEN NaN ELSE Zero)
    ELSE IF IsInf(x) THEN <<x[1] * SignP(y[1]), 0, 0>>
    ELSE Rat(x[1] * y[2], x[2] * y[1])

\* x < y; false when either is NaN. A subnormal lies strictly between 0 and
\* every tiny value of its sign, and a tiny value between the subnormals
\* and the other nonzero values of its sign.
Main(x) == IF IsSub(x) \/ IsTiny(x) THEN Zero ELSE x
Mid(x)  == IF IsTiny(x) THEN <<x[1], x[2], 0>> ELSE Zero
Eps(x)  == IF IsSub(x) THEN x[1] ELSE 0
MainLess(a, b) ==
    IF a[2] = 0 /\ b[2] = 0 THEN a[1] < b[1]
    ELSE a[1] * b[2] < b[1] * a[2]
DLess(x, y) ==
    /\ ~IsNaN(x)
    /\ ~IsNaN(y)
    /\ \/ MainLess(Main(x), Main(y))
       \/ Main(x) = Main(y) /\ MainLess(Mid(x), Mid(y))
       \/ Main(x) = Main(y) /\ Mid(x) = Mid(y) /\ Eps(x) < Eps(y)
DEq(x, y)  == ~IsNaN(x) /\ ~IsNaN(y) /\ x = y
DLeq(x, y) == DLess(x, y) \/ DEq(x, y)
DGt(x, y)  == DLess(y, x)

\* What a function yields when the exact arithmetic of the model has no
\* value for its result: a dividing function when 1/t is rounded (the code
\* multiplies each component by the rounded reciprocal and rounds again),
\* and std::sqrt of a tiny value.
Rounded == <<"rounded">>

\* std::sqrt on the values the model feeds it: NaN for a negative argument,
\* the exact root of a perfect square otherwise; the root of the subnormal
\* k * 2^DenormExp is sqrt(k) * 2^TinyExp. The root of a tiny value is not
\* among the values of the model.
DSqrt(x) ==
    IF IsNaN(x) THEN NaN
    ELSE IF x[2] = 0 THEN (IF x[1] > 0 THEN infinity ELSE NaN)
    ELSE IF x[1] < 0 THEN NaN
    ELSE IF IsSub(x) THEN Tiny(ISqrt(x[1]), 1)
    ELSE IF IsTiny(x) THEN Rounded
    ELSE <<ISqrt(x[1]), ISqrt(x[2]), 0>>

\* Whether std::sqrt(x) is exact in the model.
SqrtExact(x) ==
    \/ x[2] = 0
    \/ x[1] < 0
    \/ ~IsTiny(x) /\ IsSquare(x[1]) /\ IsSquare(x[2])

\* std::fmax(x, y): the larger; a NaN argument is ignored.
DFmax(x, y) ==
    IF IsNaN(x) THEN y
    ELSE IF IsNaN(y) THEN x
    ELSE IF DLess(x, y) THEN y ELSE x

\* static_cast<int>(x) for a finite x: truncation toward zero.
StaticCastInt(x) ==
    IF IsSub(x) \/ IsTiny(x) THEN 0
    ELSE IF x[1] >= 0 THEN x[1] \div x[2] ELSE -((-x[1]) \div x[2])

---------------------------------------------------------------------------
(* vec3 (vec3.h). A vec3 is a triple of doubles.                           *)

Vec(x, y, z) == <<x, y, z>>
VecI(x, y, z) == <<D(x), D(y), D(z)>>

\* What a throwing call yields: std::domain_error.
DomainError == <<"domain_error">>
Threw(v) == v = DomainError

\* vec3::operator-()
VNeg(v) == <<DNeg(v[1]), DNeg(v[2]), DNeg(v[3])>>

\* operator+(const vec3&, const vec3&)
VAdd(u, v) == <<DAdd(u[1], v[1]), DAdd(u[2], v[2]), DAdd(u[3], v[3])>>

\* operator-(const vec3&, const vec3&): u + (-v)
VSub(u, v) == VAdd(u, VNeg(v))

\* operator*(double, const vec3&)
VScale(t, v) == <<DMul(t, v[1]), DMul(t, v[2]), DMul(t, v[3])>>

\* operator*(const vec3&, double): t * v
VTimes(v, t) == VScale(t, v)

\* vec3::operator*=(double)
VMulAssign(v, t) == <<DMul(v[1], t), DMul(v[2], t), DMul(v[3], t)>>

\* dot
Dot(u, v) == DAdd(DAdd(DMul(u[1], v[1]), DMul(u[2], v[2])), DMul(u[3], v[3]))

\* vec3::length_squared
LengthSquared(v) ==
    DAdd(DAdd(DMul(v[1], v[1]), DMul(v[2], v[2])), DMul(v[3], v[3]))

\* vec3::length
Length(v) == DSqrt(LengthSquared(v))

\* The guard of the three dividing functions:
\* std::fabs(t) <= std::numeric_limits<double>::denorm_min()
NearZero(t) == DLeq(DFabs(t), DenormMin)

\* Whether 1/t is computed without rounding: t is a power of two, 0, a
\* subnormal, an infinity or NaN.
RecipExact(t) == IsDouble(DDiv(One, t))

\* vec3::operator/=(double): throws, or *this *= 1/t
VDivAssign(v, t) ==
    IF NearZero(t) THEN DomainError
    ELSE IF RecipExact(t) THEN VMulAssign(v, DDiv(One, t))
    ELSE Rounded

\* operator/(const vec3&, double): throws, or v * (1/t)
VDiv(v, t) ==
    IF NearZero(t) THEN DomainError
    ELSE IF RecipExact(t) THEN VTimes(v, DDiv(One, t))
    ELSE Rounded

\* unit_vector: throws on a near-zero length, or v / len
UnitVector(v) ==
    LET len == Length(v)
    IN  IF NearZero(len) THEN DomainError
        ELSE VDiv(v, len)

---------------------------------------------------------------------------
(* interval (interval.h is not among the sources; from the specification). *)

\* interval(min, max)
Interval(lo, hi) == [min |-> lo, max |-> hi]

\* interval::surrounds: min < x < max
Surrounds(iv, x) == DLess(iv.min, x) /\ DLess(x, iv.max)

\* interval::clamp
Clamp(iv, x) ==
    IF DLess(x, iv.min) THEN iv.min
    ELSE IF DGt(x, iv.max) THEN iv.max
    ELSE x

---------------------------------------------------------------------------
(* ray (ray.h).                                                            *)

\* ray(origin, direction)
Ray(origin, direction) == [orig |-> origin, dir |-> direction]

\* ray::at
At(r, t) == VAdd(r.orig, VScale(t, r.dir))

---------------------------------------------------------------------------
(* hit_record and sphere (sphere.h). The material pointer carries no       *)
(* behaviour and is left out.                                              *)

HitRecord(p, normal, t, front_face) ==
    [p |-> p, normal |-> normal, t |-> t, front_face |-> front_face]

\* set_face_normal with the two branches exchanged.
SetFaceNormalFlipped(h, r, outward_normal) ==
    LET ff == DLess(Dot(r.dir, outward_normal), Zero)
    IN  [h EXCEPT !.front_face = ff,
                  !.normal = IF ff THEN VNeg(outward_normal) ELSE outward_normal]

\* hit_record::set_face_normal
SetFaceNormal(h, r, outward_normal) ==
    LET ff == DLess(Dot(r.dir, outward_normal), Zero)
    IN  [h EXCEPT !.front_face = ff,
                  !.normal = IF ff THEN outward_normal ELSE VNeg(outward_normal)]

\* sphere::sphere: the radius is clamped to be non-negative
Sphere(center, radius) == [center |-> center, radius |-> DFmax(Zero, radius)]

\* The locals of sphere::hit up to the square root.
Quadratic(s, r) ==
    LET oc == VSub(s.center, r.orig)
        a  == LengthSquared(r.dir)
        h  == Dot(r.dir, oc)
        c  == DSub(LengthSquared(oc), DMul(s.radius, s.radius))
    IN  [a |-> a, h |-> h, c |-> c,
         discriminant |-> DSub(DMul(h, h), DMul(a, c))]

\* TryRoots with the second interval test forgotten: the far root is taken
\* unchecked when the near one fails.
TryRootsUnchecked(interval, near, far) ==
    IF Surrounds(interval, near) THEN <<near>> ELSE <<far>>

\* The root sphere::hit selects, given sqrtd: the near one if the interval
\* surrounds it, else the far one if the interval surrounds it, else none.
TryRoots(interval, near, far) ==
    IF Surrounds(interval, near) THEN <<near>>
    ELSE IF Surrounds(interval, far) THEN <<far>>
    ELSE <<>>

RootsOf(q, interval, sqrtd) ==
    TryRoots(interval, DDiv(DSub(q.h, sqrtd), q.a), DDiv(DAdd(q.h, sqrtd), q.a))

SelectRoot(q, interval) == RootsOf(q, interval, DSqrt(q.discriminant))

\* The end of sphere::hit: orient the normal and return true, unless the
\* division by the radius threw.
Orient(h, r, outward_normal) ==
    IF Threw(outward_normal) THEN [ret |-> "throw", rec |-> h]
    ELSE [ret |-> "true", rec |-> SetFaceNormal(h, r, outward_normal)]

\* sphere::hit once rec.t and rec.p are written: the outward normal is
\* (rec.p - center) / radius.
Populate(s, r, h) == Orient(h, r, VDiv(VSub(h.p, s.center), s.radius))

\* sphere::hit from the root selection on.
HitAtRoot(s, r, h, root) ==
    IF root = <<>> THEN [ret |-> "false", rec |-> h]
    ELSE Populate(s, r, [h EXCEPT !.t = root[1], !.p = At(r, root[1])])

HitOfQuadratic(s, r, interval, h, q) ==
    IF DLess(q.discriminant, Zero) THEN [ret |-> "false", rec |-> h]
    ELSE HitAtRoot(s, r, h, SelectRoot(q, interval))

\* sphere::hit. The result is how the call ended and the caller's record
\* after it. A call that throws in the division by the radius has already
\* written rec.t and rec.p.
SphereHit(s, r, interval, h) == HitOfQuadratic(s, r, interval, h, Quadratic(s, r))

---------------------------------------------------------------------------
(* hittable_list (hittable_list.h).                                        *)

\* The local temp_rec of hittable_list::hit as declared, before any member
\* has written it: hit_record has no constructor, so p and normal are
\* zeroed by vec3's default constructor while t and front_face are left
\* uninitialised. Indeterminate stands for whatever they hold, any bit
\* pattern: the function never reads them, since temp_rec is copied to rec
\* only after a member's hit has returned true, which writes every field.
Indeterminate == <<"indeterminate">>
TempRec == HitRecord(VecI(0, 0, 0), VecI(0, 0, 0), Indeterminate, Indeterminate)

\* One iteration of the loop of hittable_list::hit: m is what the member's
\* hit returned; st holds the locals temp_rec, hit_anything, closest_so_far
\* and the caller's rec. An exception of a member leaves the function.
ListHitStep(st, m) ==
    IF m.ret = "true"
    THEN [temp_rec |-> m.rec, hit_anything |-> TRUE,
          closest_so_far |-> m.rec.t, rec |-> m.rec, thrown |-> FALSE]
    ELSE [st EXCEPT !.temp_rec = m.rec, !.thrown = (m.ret = "throw")]

\* The loop of hittable_list::hit from member i on.
RECURSIVE ListHitLoop(_, _, _, _, _)
ListHitLoop(objs, i, r, interval, st) ==
    IF st.thrown THEN [ret |-> "throw", rec |-> st.rec]
    ELSE IF i > Len(objs)
    THEN [ret |-> IF st.hit_anything THEN "true" ELSE "false", rec |-> st.rec]
    ELSE ListHitLoop(objs, i + 1, r, interval,
             ListHitStep(st, SphereHit(objs[i], r,
                                       Interval(interval.min, st.closest_so_far),
                                       st.temp_rec)))

\* hittable_list::hit
HittableListHit(objs, r, interval, h) ==
    ListHitLoop(objs, 1, r, interval,
                [temp_rec |-> TempRec, hit_anything |-> FALSE,
                 closest_so_far |-> interval.max, rec |-> h, thrown |-> FALSE])

---------------------------------------------------------------------------
(* The scene: an aggregate under add, clear and hit calls.                 *)

\* The most members an aggregate is given.
MaxObjects == 2

Centers == {VecI(0, 0, -2), VecI(0, 0, -3), VecI(1, 0, -2)}
Radii   == {D(-1), D(0), Sub(2), D(1), D(2)}
Origins == {VecI(0, 0, 0), VecI(0, 0, -2)}
Directions == {VecI(0, 0, -1), VecI(0, 0, -2), VecI(0, 0, 0), VecI(1, 0, -1)}
Rays == {Ray(o, d) : o \in Origins, d \in Directions}
Intervals == {Interval(Zero, infinity), Interval(D(1), D(3)),
              Interval(DNeg(infinity), infinity)}
CallerRecords == {HitRecord(VecI(7, 7, 7), VecI(0, 1, 0), D(7), TRUE)}

\* The calls on which the model's arithmetic is the code's: the member's
\* discriminant has an exact square root, both roots are doubles and so is
\* the reciprocal of the radius. ExactPairs lists the spheres and rays of
\* the model for which this holds.
ExactHit(s, r) ==
    LET q == Quadratic(s, r)
    IN  /\ SqrtExact(q.discriminant)
        /\ \/ DLess(q.discriminant, Zero)
           \/ /\ IsDouble(DDiv(DSub(q.h, DSqrt(q.discriminant)), q.a))
              /\ IsDouble(DDiv(DAdd(q.h, DSqrt(q.discriminant)), q.a))
        /\ RecipExact(s.radius)
Spheres == {Sphere(c, rad) : c \in Centers, rad \in Radii}
ExactPairs ==
    UNION {IF ExactHit(sr[1], sr[2]) THEN {sr} ELSE {} : sr \in Spheres \X Rays}
Exact(objs, r) == \A i \in 1..Len(objs) : <<objs[i], r>> \in ExactPairs

NoRay == Ray(VecI(0, 0, 0), VecI(0, 0, 0))
NoInterval == Interval(Zero, Zero)
NoRecord == HitRecord(VecI(0, 0, 0), VecI(0, 0, 0), Zero, FALSE)

NoCall ==
    /\ idx = 0
    /\ ray = NoRay
    /\ ray_t = NoInterval
    /\ rec_in = NoRecord
    /\ rec = NoRecord
    /\ ret = "none"

SceneIdle == objects = <<>> /\ op = "none" /\ NoCall
RenderIdle ==
    /\ pc = "idle"
    /\ image_width = 0
    /\ aspect_ratio = Zero
    /\ image_height = 0
    /\ row = 0
    /\ col = 0
    /\ out = <<>>
PureIdle == fn = "none" /\ arg = <<>> /\ res = <<>>

\* hittable_list(): an empty aggregate
Init == SceneIdle /\ RenderIdle /\ PureIdle

\* hittable_list::add of a newly constructed sphere
Add(center, radius) ==
    /\ ret = "none"
    /\ Len(objects) < MaxObjects
    /\ objects' = Append(objects, Sphere(center, radius))
    /\ op' = "add"
    /\ idx' = 0
    /\ ray' = NoRay
    /\ ray_t' = NoInterval
    /\ rec_in' = NoRecord
    /\ rec' = NoRecord
    /\ ret' = "none"
    /\ UNCHANGED <<renderVars, pureVars>>

\* hittable_list::clear
Clear ==
    /\ ret = "none"
    /\ objects' = <<>>
    /\ op' = "clear"
    /\ idx' = 0
    /\ ray' = NoRay
    /\ ray_t' = NoInterval
    /\ rec_in' = NoRecord
    /\ rec' = NoRecord
    /\ ret' = "none"
    /\ UNCHANGED <<renderVars, pureVars>>

\* A call of hittable_list::hit on the aggregate.
ListHit(r, interval, h) ==
    /\ ret = "none"
    /\ Exact(objects, r)
    /\ LET m == HittableListHit(objects, r, interval, h)
       IN  /\ ret' = m.ret
           /\ rec' = m.rec
    /\ op' = "list_hit"
    /\ idx' = 0
    /\ ray' = r
    /\ ray_t' = interval
    /\ rec_in' = h
    /\ UNCHANGED <<objects, renderVars, pureVars>>

\* A call of sphere::hit on member i of the aggregate.
MemberHit(i, r, interval, h) ==
    /\ ret = "none"
    /\ i \in 1..Len(objects)
    /\ Exact(objects, r)
    /\ LET m == SphereHit(objects[i], r, interval, h)
       IN  /\ ret' = m.ret
           /\ rec' = m.rec
    /\ op' = "sphere_hit"
    /\ idx' = i
    /\ ray' = r
    /\ ray_t' = interval
    /\ rec_in' = h
    /\ UNCHANGED <<objects, renderVars, pureVars>>

\* The caller is done with the result of its hit call.
Return ==
    /\ ret # "none"
    /\ op' = "none"
    /\ idx' = 0
    /\ ray' = NoRay
    /\ ray_t' = NoInterval
    /\ rec_in' = NoRecord
    /\ rec' = NoRecord
    /\ ret' = "none"
    /\ UNCHANGED <<objects, renderVars, pureVars>>

Next ==
    \/ \E c \in Centers, rad \in Radii : Add(c, rad)
    \/ Clear
    \/ Return
    \/ \E r \in Rays, iv \in Intervals, h \in CallerRecords : ListHit(r, iv, h)
    \/ \E i \in 1..MaxObjects, r \in Rays, iv \in Intervals, h \in CallerRecords :
           MemberHit(i, r, iv, h)

Spec == Init /\ [][Next]_vars

---------------------------------------------------------------------------
(* Colour output (color.h).                                                *)

\* linear_to_gamma
LinearToGamma(linear_component) ==
    IF DGt(linear_component, Zero) THEN DSqrt(linear_component) ELSE Zero

\* static const interval intensity(0.000, 0.999)
Intensity == Interval(Zero, Rat(999, 1000))

\* The factor write_color scales the clamped component by.
ByteScale == 255

\* One channel of write_color: static_cast<int>(255 * intensity.clamp(g))
ByteOf(linear_component) ==
    StaticCastInt(DMul(D(ByteScale), Clamp(Intensity, LinearToGamma(linear_component))))

\* write_color: the line written, as its three integers.
WriteColor(pixel_color) ==
    <<ByteOf(pixel_color[1]), ByteOf(pixel_color[2]), ByteOf(pixel_color[3])>>

---------------------------------------------------------------------------
(* The render run of main (main.cpp).                                      *)

\* The widest image rendered.
MaxWidth == 4

Widths == 1..MaxWidth
AspectRatios == {Rat(3, 4), D(1), Rat(16, 9), D(2), D(4)}

\* The colours main.cpp names, and the color(0.5, 0.7, 1.0) of ray_color.
blue  == VecI(0, 0, 1)
green == VecI(0, 1, 0)
white == VecI(1, 1, 1)
sky   == Vec(Rat(1, 2), Rat(7, 10), One)

\* channel_range, written as the header's maximum
ChannelRange == 255

\* The quotient image_width / aspect_ratio is rounded to a double before
\* it is truncated, so it is computed on the bits: a positive normal double
\* is <<m, e>>, the number m * 2^e with the 53-bit mantissa 2^52 <= m < 2^53
\* held as a pair of limbs.
Normalised[x \in Wides \X Int] ==
    IF x[1][1] >= 2^25 THEN x ELSE Normalised[<<WideTwice(x[1]), x[2] - 1>>]

\* static_cast<double>(k) for an int k > 0 (exact)
FromInt(k) == Normalised[<<Wide(k), 0>>]

\* x / y on positive normal doubles with a normal quotient: 54 bits of the
\* quotient of the mantissas by long division, rounded to 53 bits to the
\* nearest, ties to even (the remainder is the sticky bit).
DoubleQuotient(x, y) ==
    IF WideLess(x[1], y[1])
    THEN NearestEven[LongQuotient[<<Wide(0), x[1], 54>>, y[1]],
                     x[2] - y[2] - 54]
    ELSE NearestEven[LongQuotient[<<Wide(1), WideMinus(x[1], y[1]), 53>>, y[1]],
                     x[2] - y[2] - 53]

\* The bits of a positive normal double of the model: n / d stands for the
\* double nearest to it, which is the quotient of the doubles n and d.
Binary64(x) == DoubleQuotient(FromInt(x[1]), FromInt(x[2]))

\* static_cast<int>(sign * x) for the bits x truncates the magnitude. It is
\* defined when the truncated value is an int (InIntRange); the conversion
\* of any other value is undefined.
InIntRange(sign, x) ==
    /\ x[2] < 0
    /\ \/ WideOver[x[1], -x[2]][1] < 16
       \/ sign < 0 /\ WideOver[x[1], -x[2]] = <<16, 0>>
IntOfBits(sign, x) ==
    LET whole == WideOver[x[1], -x[2]]
    IN  IF whole[1] < 16 THEN sign * (whole[1] * Limb + whole[2])
        ELSE (-2147483647) - 1

\* The double image_width / aspect_ratio of a width and a ratio that are
\* neither 0 and a ratio that is a normal double: its sign and its bits.
HeightQuotient(width, ratio) ==
    <<Sign(width) * Sign(ratio[1]),
      DoubleQuotient(FromInt(Abs(width)), Binary64(<<Abs(ratio[1]), ratio[2]>>))>>

\* Whether static_cast<int>(image_width / aspect_ratio) is defined: not for
\* a quotient that is NaN, an infinity or beyond the range of int (a zero
\* ratio, a subnormal or a tiny one gives such a quotient unless the width
\* is 0).
HeightDefined(width, ratio) ==
    IF IsNaN(ratio) \/ IsZero(ratio) THEN FALSE
    ELSE IF IsInf(ratio) \/ width = 0 THEN TRUE
    ELSE IF IsSub(ratio) \/ IsTiny(ratio) THEN FALSE
    ELSE InIntRange(HeightQuotient(width, ratio)[1], HeightQuotient(width, ratio)[2])

\* static_cast<int>(image_width / aspect_ratio) where it is defined
HeightCast(width, ratio) ==
    IF IsInf(ratio) \/ width = 0 THEN 0
    ELSE IntOfBits(HeightQuotient(width, ratio)[1], HeightQuotient(width, ratio)[2])

\* image_height with the clamp to at least 1 left out.
ImageHeightUnclamped(width, ratio) ==
    IF HeightDefined(width, ratio) THEN HeightCast(width, ratio)
    ELSE Indeterminate

\* int image_height = static_cast<int>(image_width / aspect_ratio);
\* image_height = (image_height < 1) ? 1 : image_height;
\* An undefined conversion leaves the height indeterminate.
ImageHeight(width, ratio) ==
    IF HeightDefined(width, ratio)
    THEN IF HeightCast(width, ratio) < 1 THEN 1 ELSE HeightCast(width, ratio)
    ELSE Indeterminate

\* The header main writes: "P3", width and height, channel_range.
Header(width, height) ==
    [kind |-> "header", magic |-> "P3", width |-> width, height |-> height,
     max |-> ChannelRange]

\* The doubles of the render run are rounded at every step: the camera
\* setup divides by the image's width and height, ray_color normalises the
\* ray direction and write_color takes the square root of each channel. A
\* double of the run is modelled by an enclosure <<lo, hi>>: it lies in
\* [lo / Precision, hi / Precision]. Precision is a power of two, so both
\* bounds are doubles, and since every double operation is correctly
\* rounded (monotone, and exact on a double result) the double it yields
\* lies between the bounds the exact operation yields on the bounds of its
\* arguments, rounded outward to the grid.
Precision == 16384

\* floor and ceiling of a * b / Precision; both operands are split at
\* Precision so that no partial product leaves the integers of the model
\* checker unless the result does.
MulFloor(a, b) ==
    (a \div Precision) * (b \div Precision) * Precision
        + (a \div Precision) * (b % Precision)
        + (a % Precision) * (b \div Precision)
        + ((a % Precision) * (b % Precision)) \div Precision
MulCeil(a, b) == -MulFloor(-a, b)

\* floor and ceiling of a * Precision / b, b # 0: the quotient q and the
\* remainder r of a by b, doubled until the scale <<q, r, scale>> is used up.
RECURSIVE QuotScaled(_, _)
QuotScaled(st, b) ==
    IF st[3] = 1 THEN st
    ELSE IF st[2] >= b - st[2]
         THEN QuotScaled(<<2 * st[1] + 1, st[2] - (b - st[2]), st[3] \div 2>>, b)
         ELSE QuotScaled(<<2 * st[1], 2 * st[2], st[3] \div 2>>, b)
QuotFloor(a, b) ==
    IF b > 0 THEN QuotScaled(<<a \div b, a % b, Precision>>, b)[1]
    ELSE QuotScaled(<<(-a) \div (-b), (-a) % (-b), Precision>>, -b)[1]
QuotCeil(a, b) == -QuotFloor(-a, b)

\* floor and ceiling of sqrt(n * Precision), n >= 0: the root r of n and the
\* remainder n - r * r, extended by one bit for every factor 4 of the scale
\* <<r, remainder, scale>>.
RECURSIVE RootRefine(_)
RootRefine(st) ==
    IF st[3] = 1 THEN st
    ELSE IF 4 * st[2] >= 4 * st[1] + 1
         THEN RootRefine(<<2 * st[1] + 1, 4 * st[2] - 4 * st[1] - 1, st[3] \div 4>>)
         ELSE RootRefine(<<2 * st[1], 4 * st[2], st[3] \div 4>>)
Root(n) ==
    RootRefine(<<FloorRoot(n), n - FloorRoot(n) * FloorRoot(n), Precision>>)
RootFloor(n) == Root(n)[1]
RootCeil(n) == IF Root(n)[2] = 0 THEN Root(n)[1] ELSE Root(n)[1] + 1

\* What an operation yields when the enclosures of its arguments do not
\* settle it: a double outside every enclosure (an infinity, NaN, or a
\* quotient by a divisor that may be as small as one pleases) or, for a
\* function that can throw, possibly its exception.
Unsettled == <<"unsettled">>

\* The enclosure of the int n converted to double, and of the double a
\* literal or a rational of the model stands for.
Double(n) == <<n * Precision, n * Precision>>
Enclose(x) == <<FloorDiv(x[1] * Precision, x[2]), CeilDiv(x[1] * Precision, x[2])>>
EncloseVec(v) == <<Enclose(v[1]), Enclose(v[2]), Enclose(v[3])>>

\* -x, x + y, x - y, x * y, x * x, x / y and std::sqrt(x). A quotient by an
\* enclosure that holds 0 and the root of one that holds negative numbers
\* are not settled.
ENeg(x) == <<-x[2], -x[1]>>
EAdd(x, y) == <<x[1] + y[1], x[2] + y[2]>>
ESub(x, y) == <<x[1] - y[2], x[2] - y[1]>>
EMul(x, y) ==
    <<Least({MulFloor(a, b) : a \in {x[1], x[2]}, b \in {y[1], y[2]}}),
      Greatest({MulCeil(a, b) : a \in {x[1], x[2]}, b \in {y[1], y[2]}})>>
ESquare(x) ==
    IF x[1] >= 0 THEN <<MulFloor(x[1], x[1]), MulCeil(x[2], x[2])>>
    ELSE IF x[2] <= 0 THEN <<MulFloor(x[2], x[2]), MulCeil(x[1], x[1])>>
    ELSE <<0, Greatest({MulCeil(x[1], x[1]), MulCeil(x[2], x[2])})>>
EDiv(x, y) ==
    IF y[1] <= 0 /\ 0 <= y[2] THEN Unsettled
    ELSE <<Least({QuotFloor(a, b) : a \in {x[1], x[2]}, b \in {y[1], y[2]}}),
           Greatest({QuotCeil(a, b) : a \in {x[1], x[2]}, b \in {y[1], y[2]}})>>
ESqrt(x) == IF x[1] < 0 THEN Unsettled ELSE <<RootFloor(x[1]), RootCeil(x[2])>>

\* vec3.h on enclosures: operator-, operator+, operator- (u + (-v)),
\* operator*(double, vec3), dot, length_squared, length
EVNeg(v) == <<ENeg(v[1]), ENeg(v[2]), ENeg(v[3])>>
EVAdd(u, v) == <<EAdd(u[1], v[1]), EAdd(u[2], v[2]), EAdd(u[3], v[3])>>
EVSub(u, v) == EVAdd(u, EVNeg(v))
EVScale(t, v) == <<EMul(t, v[1]), EMul(t, v[2]), EMul(t, v[3])>>
EDot(u, v) == EAdd(EAdd(EMul(u[1], v[1]), EMul(u[2], v[2])), EMul(u[3], v[3]))
ELengthSquared(v) == EAdd(EAdd(ESquare(v[1]), ESquare(v[2])), ESquare(v[3]))
ELength(v) == ESqrt(ELengthSquared(v))

\* The guard of the dividing functions on an enclosure: whether the double
\* may be 0 or of magnitude denorm_min. It is one of these when the
\* enclosure is the point 0; when the enclosure holds 0 and more, it may
\* also be a double the guard lets pass.
ENearZero(t) == t[1] <= 0 /\ 0 <= t[2]

\* operator/(const vec3&, double) on enclosures: throws for a divisor that
\* is 0, and is v * (1/t) for one that cannot be near 0.
EVDiv(v, t) ==
    IF t = Double(0) THEN DomainError
    ELSE IF ENearZero(t) THEN Unsettled
    ELSE EVScale(EDiv(Double(1), t), v)

\* unit_vector on enclosures: throws for the length 0, and is v / len for a
\* length that cannot be near 0.
EUnitVector(v) ==
    LET len == ELength(v)
    IN  IF len = Double(0) THEN DomainError
        ELSE IF ENearZero(len) THEN Unsettled
        ELSE EVDiv(v, len)

\* The camera setup of main for a width x height image, and the ray its
\* loop body sends through the pixel at (r, c).
focal_length    == Double(1)
viewport_height == Double(2)
camera_center   == <<Double(0), Double(0), Double(0)>>
ViewportWidth(width, height) ==
    EMul(viewport_height, EDiv(Double(width), Double(height)))
ViewportU(width, height) == <<ViewportWidth(width, height), Double(0), Double(0)>>
ViewportV == <<Double(0), ENeg(viewport_height), Double(0)>>
PixelDeltaU(width, height) == EVDiv(ViewportU(width, height), Double(width))
PixelDeltaV(height) == EVDiv(ViewportV, Double(height))
ViewportUpperLeft(width, height) ==
    EVSub(EVSub(EVSub(camera_center, <<Double(0), Double(0), focal_length>>),
                EVDiv(ViewportU(width, height), Double(2))),
          EVDiv(ViewportV, Double(2)))
Pixel00Loc(width, height) ==
    EVAdd(ViewportUpperLeft(width, height),
          EVScale(Enclose(Rat(1, 2)),
                  EVAdd(PixelDeltaU(width, height), PixelDeltaV(height))))
PixelCenter(width, height, r, c) ==
    EVAdd(EVAdd(Pixel00Loc(width, height),
                EVScale(Double(c), PixelDeltaU(width, height))),
          EVScale(Double(r), PixelDeltaV(height)))
PixelRay(width, height, r, c) ==
    Ray(camera_center, EVSub(PixelCenter(width, height, r, c), camera_center))

\* hit_sphere: whether the discriminant is non-negative. The result is the
\* set of the values the enclosure of the discriminant allows.
hit_sphere(center, radius, r) ==
    LET oc == EVSub(center, r.orig)
        a  == EDot(r.dir, r.dir)
        b  == EMul(Double(-2), EDot(r.dir, oc))
        c  == ESub(EDot(oc, oc), EMul(radius, radius))
        discriminant == ESub(EMul(b, b), EMul(EMul(Double(4), a), c))
    IN  {hit \in BOOLEAN : IF hit THEN discriminant[2] >= 0
                                   ELSE discriminant[1] < 0}

\* (1.0 - a) * from + a * to
Blend(a, from, to) ==
    EVAdd(EVScale(ESub(Double(1), a), from), EVScale(a, to))

\* ray_color from unit_direction on: on the sphere a gradient from green to
\* blue, elsewhere one from white to color(0.5, 0.7, 1.0).
ColorOf(hit, unit_direction) ==
    IF hit
    THEN Blend(EMul(Enclose(Rat(1, 2)),
                    EAdd(ESub(unit_direction[2], unit_direction[1]), Double(1))),
               EncloseVec(green), EncloseVec(blue))
    ELSE Blend(EMul(Enclose(Rat(1, 2)), EAdd(unit_direction[2], Double(2))),
               EncloseVec(white), EncloseVec(sky))

\* ray_color: its outcomes. unit_vector comes first, and what it throws
\* leaves ray_color; otherwise the colours the enclosures allow, one for
\* each value hit_sphere may return.
ray_color(r) ==
    IF EUnitVector(r.dir) \in {DomainError, Unsettled} THEN {EUnitVector(r.dir)}
    ELSE {ColorOf(hit, EUnitVector(r.dir)) :
              hit \in hit_sphere(EncloseVec(VecI(0, 0, -1)), Enclose(Rat(1, 2)), r)}

\* linear_to_gamma on an enclosure
ELinearToGamma(c) ==
    <<IF c[1] > 0 THEN RootFloor(c[1]) ELSE 0,
      IF c[2] > 0 THEN RootCeil(c[2]) ELSE 0>>

\* interval::clamp on enclosures of x and of the interval's bounds
EClamp(iv, x) ==
    <<Least({Greatest({x[1], Enclose(iv.min)[1]}), Enclose(iv.max)[1]}),
      Least({Greatest({x[2], Enclose(iv.min)[2]}), Enclose(iv.max)[2]})>>

\* The integers static_cast<int>(255 * intensity.clamp(linear_to_gamma(c)))
\* may be for a channel c within its enclosure.
ChannelBytes(c) ==
    LET scaled == EMul(Double(ByteScale), EClamp(Intensity, ELinearToGamma(c)))
    IN  FloorDiv(scaled[1], Precision) .. FloorDiv(scaled[2], Precision)
BytesOf(pixel_color) ==
    {<<rbyte, gbyte, bbyte>> : rbyte \in ChannelBytes(pixel_color[1]),
                               gbyte \in ChannelBytes(pixel_color[2]),
                               bbyte \in ChannelBytes(pixel_color[3])}

\* What write_color(std::cout, ray_color(r)) writes for each pixel of each
\* image of the model: <<width, height, row, col, bytes>>. In place of the
\* bytes stands the outcome of a ray_color that yields no colour.
Written(outcome) ==
    IF outcome \in {DomainError, Unsettled} THEN {outcome} ELSE BytesOf(outcome)
ImageSizes == {<<w, ImageHeight(w, a)>> : w \in Widths, a \in AspectRatios}
PixelsOf(width, height) ==
    {<<width, height, r, c>> : r \in 0..(height - 1), c \in 0..(width - 1)}
Pixels == UNION {PixelsOf(wh[1], wh[2]) : wh \in ImageSizes}
WrittenColors ==
    UNION {{<<px[1], px[2], px[3], px[4], bytes>> :
                bytes \in UNION {Written(pixel_color) :
                                     pixel_color \in
                                         ray_color(PixelRay(px[1], px[2], px[3], px[4]))}} :
           px \in Pixels}

\* The line write_color writes for the pixel at (r, c).
PixelLine(r, c, bytes) ==
    [kind |-> "pixel", row |-> r, col |-> c, bytes |-> bytes]

RenderStart ==
    /\ pc = "setup"
    /\ image_width \in Widths
    /\ aspect_ratio \in AspectRatios
    /\ image_height = 0
    /\ row = 0
    /\ col = 0
    /\ out = <<>>

\* Image setup: the height is derived from the width and the aspect ratio.
Setup ==
    /\ pc = "setup"
    /\ image_height' = ImageHeight(image_width, aspect_ratio)
    /\ pc' = "header"
    /\ UNCHANGED <<image_width, aspect_ratio, row, col, out, sceneVars, pureVars>>

\* std::cout << "P3\n" << image_width << ' ' << image_height << '\n' << ...
WriteHeader ==
    /\ pc = "header"
    /\ out' = Append(out, Header(image_width, image_height))
    /\ row' = 0
    /\ col' = 0
    /\ pc' = "loop"
    /\ UNCHANGED <<image_width, aspect_ratio, image_height, sceneVars, pureVars>>

\* color pixel_color = ray_color(r); write_color(std::cout, pixel_color);
\* for the pixel at (row, col), after which the loop variables are next_row
\* and next_col. An exception of ray_color is caught nowhere: it leaves
\* main and ends the run with no line written for the pixel.
PixelStep(next_row, next_col) ==
    \E line \in WrittenColors :
        /\ line[1] = image_width /\ line[2] = image_height
        /\ line[3] = row /\ line[4] = col
        /\ \E thrown \in (IF line[5] = Unsettled THEN BOOLEAN
                           ELSE {line[5] = DomainError}) :
               IF thrown
               THEN pc' = "terminated" /\ UNCHANGED <<row, col, out>>
               ELSE /\ out' = Append(out, PixelLine(row, col, line[5]))
                    /\ row' = next_row
                    /\ col' = next_col
                    /\ pc' = pc

\* The loop body with the two loops exchanged: columns outside, rows inside.
RenderPixelColumnMajor ==
    /\ pc = "loop"
    /\ col < image_width
    /\ PixelStep(IF row + 1 < image_height THEN row + 1 ELSE 0,
                 IF row + 1 < image_height THEN col ELSE col + 1)
    /\ UNCHANGED <<image_width, aspect_ratio, image_height, sceneVars, pureVars>>

\* One pass of the loop body and the loops' increments: the next column, or
\* the first column of the next row.
RenderPixel ==
    /\ pc = "loop"
    /\ row < image_height
    /\ PixelStep(IF col + 1 < image_width THEN row ELSE row + 1,
                 IF col + 1 < image_width THEN col + 1 ELSE 0)
    /\ UNCHANGED <<image_width, aspect_ratio, image_height, sceneVars, pureVars>>

\* The outer loop ends and main returns 0.
Finish ==
    /\ pc = "loop"
    /\ ~(row < image_height)
    /\ pc' = "done"
    /\ UNCHANGED <<image_width, aspect_ratio, image_height, row, col, out,
                   sceneVars, pureVars>>

RenderNext == Setup \/ WriteHeader \/ RenderPixel \/ Finish

\* main starts; no aggregate and no function call is involved.
RenderInit == SceneIdle /\ RenderStart /\ PureIdle

SpecRender == RenderInit /\ [][RenderNext]_vars

---------------------------------------------------------------------------
(* The dividing functions of vec3.h and write_color, applied to inputs.    *)

Components == {Zero, D(1), D(-2), Sub(1)}
Vectors == {Vec(x, y, z) : x \in Components, y \in {Zero, D(-2)}, z \in {Zero, Sub(1)}}
Divisors == {Zero, Sub(1), Sub(-1), Sub(2), Sub(-2), Rat(1, 2), D(1), D(-2),
             D(4), infinity, NaN}

Channels == {D(-1), Zero, Sub(4), Rat(1, 16), Rat(1, 4), D(1), D(4), infinity, NaN}
Colors == {Vec(r, g, b) : r \in Channels, g \in {Zero, Rat(1, 4), D(1)}, b \in Channels}

Vec3Start == fn = "none" /\ arg \in Vectors \X Divisors /\ res = <<>>
Vec3Init == SceneIdle /\ RenderIdle /\ Vec3Start

\* v /= t
DivAssignCall ==
    /\ fn = "none"
    /\ fn' = "operator/="
    /\ res' = VDivAssign(arg[1], arg[2])
    /\ UNCHANGED <<arg, sceneVars, renderVars>>

\* v / t
DivCall ==
    /\ fn = "none"
    /\ fn' = "operator/"
    /\ res' = VDiv(arg[1], arg[2])
    /\ UNCHANGED <<arg, sceneVars, renderVars>>

\* unit_vector(v)
UnitVectorCall ==
    /\ fn = "none"
    /\ SqrtExact(LengthSquared(arg[1]))
    /\ RecipExact(Length(arg[1]))
    /\ fn' = "unit_vector"
    /\ res' = UnitVector(arg[1])
    /\ UNCHANGED <<arg, sceneVars, renderVars>>

Vec3Next == DivAssignCall \/ DivCall \/ UnitVectorCall

SpecVec3 == Vec3Init /\ [][Vec3Next]_vars

ColorStart == fn = "none" /\ arg \in Colors /\ res = <<>>
ColorInit == SceneIdle /\ RenderIdle /\ ColorStart

\* write_color(out, pixel_color)
WriteColorCall ==
    /\ fn = "none"
    /\ fn' = "write_color"
    /\ res' = WriteColor(arg)
    /\ UNCHANGED <<arg, sceneVars, renderVars>>

ColorNext == WriteColorCall

SpecColor == ColorInit /\ [][ColorNext]_vars

\* The setup of the image height applied to widths and aspect ratios; in
\* main the ratio is the double 16.0 / 9.0 and the width is 800.
MaxImageWidth == 35

ImageWidths == (1..MaxImageWidth) \cup {800}
ImageRatios ==
    AspectRatios \cup {Rat(4, 5), Rat(1, 5), Rat(5, 3), Rat(7, 3), Rat(3, 17),
                       D(1000), Rat(1, 2^30), D(2^30)}

HeightInit ==
    /\ SceneIdle /\ RenderIdle
    /\ fn = "none" /\ arg \in ImageWidths \X ImageRatios /\ res = <<>>

\* main.cpp:78-79 on image_width = arg[1] and aspect_ratio = arg[2]
ImageHeightCall ==
    /\ fn = "none"
    /\ fn' = "image_height"
    /\ res' = ImageHeight(arg[1], arg[2])
    /\ UNCHANGED <<arg, sceneVars, renderVars>>

HeightNext == ImageHeightCall

SpecHeight == HeightInit /\ [][HeightNext]_vars

---------------------------------------------------------------------------
(* Properties of the scene.                                                *)

IsHitCall == op \in {"list_hit", "sphere_hit"}

\* What member i reports when its own hit is called with the ray, interval
\* and record of the last call.
MemberReport(i) == SphereHit(objects[i], ray, ray_t, rec_in)
Reporting == {i \in 1..Len(objects) : MemberReport(i).ret = "true"}

\* C1: hittable_list::hit returns true iff at least one member reports a
\* hit strictly inside the search interval, and then the record's t is the
\* minimum t over the members' qualifying hits.
C1_AggregateNearest ==
    op = "list_hit" =>
        /\ (ret = "true") <=> (Reporting # {})
        /\ ret = "true" =>
               /\ \E i \in Reporting : MemberReport(i).rec.t = rec.t
               /\ \A i \in Reporting : DLeq(rec.t, MemberReport(i).rec.t)

\* C2: a hit the aggregate returns has its t strictly inside the search
\* interval it was queried with, also when earlier members have narrowed
\* the far bound.
C2_InsideInterval ==
    (op = "list_hit" /\ ret = "true") =>
        DLess(ray_t.min, rec.t) /\ DLess(rec.t, ray_t.max)

\* C2 witness: the aggregate returned the hit of its second member, found
\* under the bound the first member's hit had narrowed.
C2_Witness ==
    /\ op = "list_hit"
    /\ ret = "true"
    /\ Len(objects) = 2
    /\ MemberReport(1).ret = "true"
    /\ DLess(rec.t, MemberReport(1).rec.t)
    /\ IsFinite(ray_t.max)

\* C3 as claimed: for every reported hit the stored normal satisfies
\* direction . normal < 0 strictly.
C3_StrictlyOpposes ==
    (IsHitCall /\ ret = "true") => DLess(Dot(ray.dir, rec.normal), Zero)

\* The outward normal of the hit the record holds, on member i.
OutwardNormal(i) == VDiv(VSub(rec.p, objects[i].center), objects[i].radius)

\* C3 amended: for every reported hit direction . normal is never positive,
\* and strictly negative on a front-face hit; on a sphere it is 0 exactly
\* when the ray grazes the sphere (direction . outward_normal = 0).
C3_Opposes ==
    (IsHitCall /\ ret = "true") =>
        /\ ~DGt(Dot(ray.dir, rec.normal), Zero)
        /\ rec.front_face => DLess(Dot(ray.dir, rec.normal), Zero)
        /\ op = "sphere_hit" =>
               (Dot(ray.dir, rec.normal) = Zero
                    <=> Dot(ray.dir, OutwardNormal(idx)) = Zero)

\* C3 witness: a reported hit of a grazing ray, direction . normal = 0.
C3_Witness ==
    /\ op = "sphere_hit"
    /\ ret = "true"
    /\ Dot(ray.dir, rec.normal) = Zero
    /\ ~rec.front_face

\* The ray of the last call passes through the centre of member i (a
\* sphere of radius 0): a proper direction and a zero discriminant.
ThroughCentre(i) ==
    LET q == Quadratic(objects[i], ray)
    IN  DLess(Zero, q.a) /\ q.discriminant = Zero
CentreRoot(i) ==
    LET q == Quadratic(objects[i], ray) IN DDiv(q.h, q.a)

\* C4: sphere::hit on a sphere of radius 0 never fails with an error; it
\* returns a hit with t = h/a for a ray through the centre whose root is
\* inside the interval, and no hit for a ray that misses the centre.
C4_DegenerateSphere ==
    (op = "sphere_hit" /\ objects[idx].radius = Zero) =>
        /\ ret # "throw"
        /\ (ThroughCentre(idx) /\ Surrounds(ray_t, CentreRoot(idx))) =>
               (ret = "true" /\ rec.t = CentreRoot(idx))
        /\ ~ThroughCentre(idx) => ret = "false"

\* The two roots of member i for the ray of the last call.
NearRoot(i) ==
    LET q == Quadratic(objects[i], ray)
    IN  DDiv(DSub(q.h, DSqrt(q.discriminant)), q.a)
FarRoot(i) ==
    LET q == Quadratic(objects[i], ray)
    IN  DDiv(DAdd(q.h, DSqrt(q.discriminant)), q.a)
StrictlyInside(x) == DLess(ray_t.min, x) /\ DLess(x, ray_t.max)

\* C9: with discriminant >= 0 sphere::hit reports the near root if it is
\* strictly inside the interval, else the far root if that is strictly
\* inside, else no intersection.
C9_RootOrder ==
    (op = "sphere_hit" /\ DLeq(Zero, Quadratic(objects[idx], ray).discriminant)) =>
        IF StrictlyInside(NearRoot(idx))
        THEN ret = "true" /\ rec.t = NearRoot(idx)
        ELSE IF StrictlyInside(FarRoot(idx))
        THEN ret = "true" /\ rec.t = FarRoot(idx)
        ELSE ret = "false"

\* C10: a hit call that returns false leaves the caller's record as it
\* was, and the record is written only by a call that returns true.
C10_RecordWrittenOnlyOnHit ==
    IsHitCall =>
        /\ ret = "false" => rec = rec_in
        /\ rec # rec_in => ret = "true"

\* The root member i's own hit finds for the ray and the interval of the
\* last call: <<t>>, or <<>> when it finds none.
MemberRoot(i) ==
    IF DLess(Quadratic(objects[i], ray).discriminant, Zero) THEN <<>>
    ELSE SelectRoot(Quadratic(objects[i], ray), ray_t)
Hitting == {i \in 1..Len(objects) : MemberRoot(i) # <<>>}

\* The members that hit the ray at the smallest t, and the earliest-inserted
\* of them.
Nearest ==
    {i \in Hitting : \A j \in Hitting : DLeq(MemberRoot(i)[1], MemberRoot(j)[1])}
Earliest == CHOOSE i \in Nearest : \A j \in Nearest : i <= j

\* C11: when two or more members hit the ray at the same smallest t,
\* hittable_list::hit returns true with the record of the earliest-inserted
\* of them; a later member with the same t does not replace it.
C11_EarliestOnTie ==
    (op = "list_hit" /\ Cardinality(Nearest) >= 2) =>
        /\ ret = "true"
        /\ rec = MemberReport(Earliest).rec

---------------------------------------------------------------------------
(* Properties of the render run.                                           *)

Max(a, b) == IF a >= b THEN a ELSE b

\* C5: the header (P3, width, height, 255) is written once, before any
\* pixel line; then image_width * image_height pixel lines follow in
\* row-major order, and the run ends with nothing else written.
C5_HeaderThenRowMajor ==
    /\ pc \in {"setup", "header", "loop", "done"}
    /\ pc \in {"setup", "header"} => out = <<>>
    /\ pc \in {"loop", "done"} =>
           /\ Len(out) >= 1
           /\ out[1] = [kind |-> "header", magic |-> "P3", width |-> image_width,
                        height |-> image_height, max |-> 255]
           /\ \A i \in 2..Len(out) :
                  /\ out[i].kind = "pixel"
                  /\ out[i].row = (i - 2) \div image_width
                  /\ out[i].col = (i - 2) % image_width
           /\ Len(out) <= 1 + image_width * image_height
    /\ pc \in {"setup", "header", "loop"} => ENABLED RenderNext
    /\ pc = "done" =>
           /\ Len(out) = 1 + image_width * image_height
           /\ ~ENABLED RenderNext

\* C5 witness: a finished run of an image of several rows and columns.
C5_Witness ==
    /\ pc = "done"
    /\ image_width >= 2
    /\ image_height >= 2
    /\ Len(out) = 1 + image_width * image_height

\* The exact quotient q = image_width / aspect_ratio of a call with a
\* positive width and a positive normal ratio, taken on the value of the
\* double aspect_ratio: floor(q * 2^k), whether q < 2^31, and floor(q).
PositiveCall ==
    /\ fn = "image_height"
    /\ arg[1] > 0
    /\ IsFinite(arg[2]) /\ ~IsSub(arg[2]) /\ ~IsTiny(arg[2]) /\ arg[2][1] > 0
ExactScaled(k) ==
    LET ratio == Binary64(arg[2])
    IN  IF k - ratio[2] <= 0 THEN <<0, 0>>
        ELSE LongQuotient[<<<<0, 0>>, Wide(arg[1]), k - ratio[2]>>, ratio[1]][1]
QuotientIsInt == ExactScaled(-31) = <<0, 0>>
ExactFloor == ExactScaled(0)[1] * Limb + ExactScaled(0)[2]

\* Whether q, which is below the integer n, is at or above the midpoint of
\* n and the double next below n, so that the double nearest to q is n:
\* with 2^p < n <= 2^(p+1) the midpoint is n - 2^(p-53).
RoundsUpTo(n) ==
    ExactScaled(54 - CeilLog2(n)) =
        WideMinus(WideTimes[Wide(n), 54 - CeilLog2(n)], Wide(1))

\* C8 as stated: image_height is max(1, floor(image_width / aspect_ratio))
\* for every positive image_width and aspect_ratio.
C8_ExactFloor ==
    PositiveCall =>
        /\ QuotientIsInt
        /\ HeightDefined(arg[1], arg[2])
        /\ res = Max(1, ExactFloor)

\* C8, amended: for a positive image_width and aspect_ratio whose exact
\* quotient q is below 2^31 - 1, image_height is max(1, floor(q)), except
\* that it is floor(q) + 1 when q is so close below that integer that the
\* double quotient is rounded up to it; image_height is at least 1.
C8_ImageHeight ==
    (PositiveCall /\ QuotientIsInt /\ ExactFloor < 2147483647) =>
        /\ res >= 1
        /\ res = IF RoundsUpTo(ExactFloor + 1) THEN ExactFloor + 1
                 ELSE Max(1, ExactFloor)

\* C8 witness: a call whose exact quotient is below an integer above 1 and
\* whose double quotient is rounded up to it.
C8_Witness ==
    /\ PositiveCall /\ QuotientIsInt
    /\ ExactFloor >= 1
    /\ res = ExactFloor + 1

---------------------------------------------------------------------------
(* Properties of the colour output and of the dividing functions.          *)

\* The byte the claim gives a channel: trunc(256 * clamp(g, 0, 0.999)), g
\* the square root of a positive channel and 0 otherwise.
Byte256(c) ==
    StaticCastInt(DMul(D(256),
        Clamp(Interval(Zero, Rat(999, 1000)),
              IF DLess(Zero, c) THEN DSqrt(c) ELSE Zero)))

\* C6: write_color writes trunc(256 * clamp(g, 0, 0.999)) for each
\* channel; every byte is in 0..255, linear (0,0,0) is written as 0 0 0 and
\* linear (1,1,1) as 255 255 255.
C6_Quantize256 ==
    fn = "write_color" =>
        /\ \A k \in 1..3 : res[k] = Byte256(arg[k]) /\ res[k] \in 0..255
        /\ arg = VecI(0, 0, 0) => res = <<0, 0, 0>>
        /\ arg = VecI(1, 1, 1) => res = <<255, 255, 255>>

\* The vector v scaled by 1/t: each component divided by t.
Scaled(v, t) == <<DDiv(v[1], t), DDiv(v[2], t), DDiv(v[3], t)>>

\* C7: v /= t, v / t and unit_vector(v) fail with the division error when
\* the divisor's magnitude is at or below the smallest positive double,
\* and otherwise return the scaled vector.
C7_DivisionGuard ==
    /\ fn \in {"operator/=", "operator/"} =>
           IF DLeq(DFabs(arg[2]), DenormMin)
           THEN res = DomainError
           ELSE res = Scaled(arg[1], arg[2])
    /\ fn = "unit_vector" =>
           IF DLeq(DFabs(Length(arg[1])), DenormMin)
           THEN res = DomainError
           ELSE res = Scaled(arg[1], Length(arg[1]))

===========================================================================
